---- MODULE Spec2Model ----
(***************************************************************************)
(* A model of HW_1/ex1_server.py: the select() event loop of the login and *)
(* command server, its per-connection tables (inputs, buffers,             *)
(* client_state), the line framing, the login state machine and the three  *)
(* commands.                                                               *)
(*                                                                         *)
(* Text is modelled character by character: a Python str is a sequence of  *)
(* one-character strings, so startswith, split, strip, rsplit and int()    *)
(* are computed as Python computes them.  An optional value (None or a     *)
(* value) is the empty sequence or a one-element sequence.                 *)
(*                                                                         *)
(* Spec is the event loop with several clients and whole lines per read;   *)
(* SpecStream follows one client's byte stream through reads of every      *)
(* size; SpecCaesar calls caesar_cipher on its own.                        *)
(***************************************************************************)
EXTENDS Integers, Sequences, FiniteSets, TLC

(***************************************************************************)
(* Bounds of the model.                                                    *)
(***************************************************************************)
\* connections accepted in one run
MaxConns == 2
\* recv() calls, over all connections, in one run
MaxReads == 2
\* characters of a plaintext given to caesar_cipher directly
MaxTextLen == 2

(***************************************************************************)
(* Program constants.                                                      *)
(***************************************************************************)
RECV_BUF_SIZE == 4096

None == <<>>
Some(x) == <<x>>

NL == "\n"
CR == "\r"
TAB == "\t"
SP == " "

\* str.isspace() for the characters of the model's alphabet
IsSpace(ch) == ch \in {SP, TAB, CR, NL}

LowerCase == <<"a","b","c","d","e","f","g","h","i","j","k","l","m",
               "n","o","p","q","r","s","t","u","v","w","x","y","z">>
UpperCase == <<"A","B","C","D","E","F","G","H","I","J","K","L","M",
               "N","O","P","Q","R","S","T","U","V","W","X","Y","Z">>
Digits == <<"0","1","2","3","4","5","6","7","8","9">>

\* a letter outside ASCII (U+00E9), written as a token
EAcute == "e_acute"
\* a letter whose lower() is two characters (U+0130), written as a token
IDot == "I_dot"

IndexIn(ch, seq) == CHOOSE i \in 1..Len(seq) : seq[i] = ch
InSeq(ch, seq) == \E i \in 1..Len(seq) : seq[i] = ch

\* str.isalpha() of one character: Unicode letters, not only A-Z a-z
IsAlpha(ch) ==
    InSeq(ch, LowerCase) \/ InSeq(ch, UpperCase) \/ ch = EAcute \/ ch = IDot

\* len(ch.lower()) of a letter
LowerLen(ch) == IF ch = IDot THEN 2 ELSE 1

\* ord(ch.lower()) of a letter
OrdLower(ch) ==
    IF InSeq(ch, LowerCase) THEN 96 + IndexIn(ch, LowerCase)
    ELSE IF InSeq(ch, UpperCase) THEN 96 + IndexIn(ch, UpperCase)
    ELSE 233

(***************************************************************************)
(* Python str operations.                                                  *)
(***************************************************************************)
StartsWith(s, p) == Len(s) >= Len(p) /\ SubSeq(s, 1, Len(p)) = p

\* s[n:]
From(s, n) == SubSeq(s, n + 1, Len(s))

Contains(s, ch) == \E i \in 1..Len(s) : s[i] = ch

FirstIndex(s, ch) == CHOOSE i \in 1..Len(s) :
                         s[i] = ch /\ \A j \in 1..(i - 1) : s[j] # ch
LastIndex(s, ch) == CHOOSE i \in 1..Len(s) :
                        s[i] = ch /\ \A j \in (i + 1)..Len(s) : s[j] # ch

\* s.split(sep, 1): a list of one or two parts
SplitFirst(s, sep) ==
    IF ~Contains(s, sep) THEN <<s>>
    ELSE LET i == FirstIndex(s, sep)
         IN <<SubSeq(s, 1, i - 1), SubSeq(s, i + 1, Len(s))>>

\* s.rsplit(sep, 1)
RSplitLast(s, sep) ==
    IF ~Contains(s, sep) THEN <<s>>
    ELSE LET i == LastIndex(s, sep)
         IN <<SubSeq(s, 1, i - 1), SubSeq(s, i + 1, Len(s))>>

RECURSIVE LStrip(_)
LStrip(s) == IF s # <<>> /\ IsSpace(Head(s)) THEN LStrip(Tail(s)) ELSE s

RECURSIVE RStrip(_)
RStrip(s) == IF s # <<>> /\ IsSpace(s[Len(s)])
             THEN RStrip(SubSeq(s, 1, Len(s) - 1)) ELSE s

\* s.strip()
Strip(s) == RStrip(LStrip(s))

\* s.rstrip("\r")
RECURSIVE RStripCR(_)
RStripCR(s) == IF s # <<>> /\ s[Len(s)] = CR
               THEN RStripCR(SubSeq(s, 1, Len(s) - 1)) ELSE s

\* s.split(): the maximal runs of non-whitespace characters
RECURSIVE SplitWS(_)
SplitWS(s) ==
    LET t == LStrip(s)
    IN IF t = <<>> THEN <<>>
       ELSE LET n == IF \E i \in 1..Len(t) : IsSpace(t[i])
                     THEN (CHOOSE i \in 1..Len(t) :
                              IsSpace(t[i]) /\ \A j \in 1..(i - 1) : ~IsSpace(t[j])) - 1
                     ELSE Len(t)
            IN <<SubSeq(t, 1, n)>> \o SplitWS(From(t, n))

RECURSIVE DigitsValue(_)
DigitsValue(s) == IF s = <<>> THEN 0
                  ELSE 10 * DigitsValue(SubSeq(s, 1, Len(s) - 1))
                       + (IndexIn(s[Len(s)], Digits) - 1)

AllDigits(s) == s # <<>> /\ \A i \in 1..Len(s) : InSeq(s[i], Digits)

\* int(s): None for ValueError, else Some(value).  int() strips surrounding
\* whitespace and takes one optional sign.
ParseInt(s) ==
    LET t == Strip(s)
    IN IF t # <<>> /\ t[1] \in {"+", "-"}
       THEN IF AllDigits(Tail(t))
            THEN Some(IF t[1] = "-" THEN 0 - DigitsValue(Tail(t))
                      ELSE DigitsValue(Tail(t)))
            ELSE None
       ELSE IF AllDigits(t) THEN Some(DigitsValue(t)) ELSE None

\* str(n) of an integer
RECURSIVE NatToStr(_)
NatToStr(n) == IF n < 10 THEN <<Digits[n + 1]>>
               ELSE NatToStr(n \div 10) \o <<Digits[(n % 10) + 1]>>
IntToStr(n) == IF n < 0 THEN <<"-">> \o NatToStr(0 - n) ELSE NatToStr(n)

(***************************************************************************)
(* The command engine.                                                     *)
(***************************************************************************)
RECURSIVE ParenScan(_, _)
\* the loop of is_parentheses_balanced over the rest s, depth = len(stack)
ParenScan(s, depth) ==
    IF s = <<>> THEN depth = 0
    ELSE IF Head(s) = "(" THEN ParenScan(Tail(s), depth + 1)
    ELSE IF Head(s) = ")"
         THEN IF depth = 0 THEN FALSE ELSE ParenScan(Tail(s), depth - 1)
    ELSE ParenScan(Tail(s), depth)

is_parentheses_balanced(s) == ParenScan(s, 0)

Abs(n) == IF n < 0 THEN 0 - n ELSE n

RECURSIVE GcdNat(_, _)
GcdNat(a, b) == IF b = 0 THEN a ELSE GcdNat(b, a % b)
\* math.gcd
Gcd(a, b) == GcdNat(Abs(a), Abs(b))

lcm(a, b) == IF a = 0 \/ b = 0 THEN 0 ELSE Abs(a * b) \div Gcd(a, b)

\* the outcome of a call that raises: ord() of a string of two characters
TypeError == <<"TypeError", "ord() expected a character">>
Raised(outcome) == Len(outcome) = 2

RECURSIVE CaesarScan(_, _, _)
\* the loop of caesar_cipher over the rest s with result acc: None, Some(text)
\* or the TypeError ord() raises
CaesarScan(s, shift, acc) ==
    IF s = <<>> THEN Some(acc)
    ELSE IF Head(s) = SP THEN CaesarScan(Tail(s), shift, Append(acc, SP))
    ELSE IF IsAlpha(Head(s))
         THEN IF LowerLen(Head(s)) # 1 THEN TypeError
              ELSE CaesarScan(Tail(s), shift,
                       Append(acc, LowerCase[((OrdLower(Head(s)) - 97 + shift) % 26) + 1]))
    ELSE None

\* a caesar_cipher that drops the characters it cannot shift
caesar_cipher_lenient(plaintext, shift) ==
    CaesarScan(SelectSeq(plaintext, LAMBDA ch : ch = SP \/ IsAlpha(ch)), shift, <<>>)

caesar_cipher(plaintext, shift) == CaesarScan(plaintext, shift, <<>>)

(***************************************************************************)
(* Protocol text.                                                          *)
(***************************************************************************)
UserPrefix == <<"U","s","e","r",":"," ">>
PasswordPrefix == <<"P","a","s","s","w","o","r","d",":"," ">>
ParenPrefix == <<"p","a","r","e","n","t","h","e","s","e","s",":">>
LcmPrefix == <<"l","c","m",":">>
CaesarPrefix == <<"c","a","e","s","a","r",":">>
Quit == <<"q","u","i","t">>

\* A response: the text of the f-string and the value formatted into it.
Resp(text, arg) == [text |-> text, arg |-> arg]

Welcome == Resp("Welcome! Please log in\n", <<>>)
HiResp(username) == Resp("Hi {username}, good to see you\n", username)
FailedResp == Resp("Failed to login.\n", <<>>)
ParenResp(balanced) ==
    Resp("the parentheses are balanced: {'yes' if balanced else 'no'}\n",
         IF balanced THEN <<"y","e","s">> ELSE <<"n","o">>)
LcmResp(result) == Resp("the lcm is: {result}\n", IntToStr(result))
CaesarResp(ciphertext) == Resp("the ciphertext is: {ciphertext}\n", ciphertext)
ErrorResp == Resp("error: invalid input\n", <<>>)

(***************************************************************************)
(* The credential map load_users returns: username -> password.            *)
(***************************************************************************)
users == (<<"a">> :> <<"x">>) @@ (<<"b">> :> <<"y">>)

(***************************************************************************)
(* State.                                                                  *)
(***************************************************************************)
VARIABLES
    inputs,        \* the client sockets select() monitors
    buffers,       \* sock -> text received and not yet split into lines
    client_state,  \* sock -> [logged_in, login_stage, username, pending_username]
    sent,          \* sock -> the responses written to the socket, in order
    closed,        \* the sockets close_client has closed
    crashed,       \* an exception has left the event loop: the process is gone
    nconn,         \* connections accepted so far; sockets are 1..nconn
    reads,         \* recv() calls so far
    trace,         \* the lines handled by the last event, one record each
    solo,          \* sock -> the tables of a server that serves this socket alone
    wire,          \* the byte stream one client writes, as far as it is followed
    calc           \* a caesar_cipher call and the call that undoes it

vars == <<inputs, buffers, client_state, sent, closed, crashed, nconn, reads,
          trace, solo, wire, calc>>

Socks == 1..MaxConns

\* dict.pop(key, None)
Pop(f, key) == [k \in DOMAIN f \ {key} |-> f[k]]
\* dict[key] = value
Put(f, key, value) == [k \in DOMAIN f \cup {key} |-> IF k = key THEN value ELSE f[k]]

NewState == [logged_in |-> FALSE, login_stage |-> "await_user",
             username |-> None, pending_username |-> None]

(***************************************************************************)
(* The handlers work on a record W of the server's tables: inputs,         *)
(* buffers, client_state, sent, closed, crashed, with nsend, the number of *)
(* sendall calls made in this event, failAt, which of them raises (0:      *)
(* none), and trace.                                                       *)
(***************************************************************************)
\* a close_client that forgets to drop the socket's buffer
close_client_KeepBuffer(W, sock) ==
    [W EXCEPT !.inputs = @ \ {sock},
              !.client_state = Pop(@, sock),
              !.closed = @ \cup {sock}]

close_client(W, sock) ==
    [W EXCEPT !.inputs = @ \ {sock},
              !.buffers = Pop(@, sock),
              !.client_state = Pop(@, sock),
              !.closed = @ \cup {sock}]

\* try: sock.sendall(resp) / except Exception: close_client(sock)
\* A sendall that raises counts as having written no response line.
SendOrClose(W, sock, resp) ==
    LET n == W.nsend + 1
    IN IF n = W.failAt
       THEN close_client([W EXCEPT !.nsend = n], sock)
       ELSE [W EXCEPT !.nsend = n, !.sent[sock] = Append(@, resp)]

\* a credential check that forgets the password
CredentialsOK_AnyPassword(username, password) == username \in DOMAIN users

\* the credential check of the password stage
CredentialsOK(username, password) ==
    username \in DOMAIN users /\ users[username] = password

\* a failed login that does not go back to the username stage
FailedLoginState_NoReset(state) == [state EXCEPT !.pending_username = None]

\* the session state a failed login leaves: retry from the username
FailedLoginState(state) ==
    [state EXCEPT !.pending_username = None, !.login_stage = "await_user"]

\* a login stage that answers a wrong line as a failed login
LoginViolation_Reply(W, sock) == SendOrClose(W, sock, FailedResp)

\* a successful login that leaves the pending username in place
LoginState_KeepPending(state, username) ==
    [state EXCEPT !.logged_in = TRUE, !.username = Some(username),
                  !.login_stage = "None"]

\* the session state a successful login leaves
LoginState(state, username) ==
    [state EXCEPT !.logged_in = TRUE, !.username = Some(username),
                  !.login_stage = "None", !.pending_username = None]

\* a line the login stage does not expect: close
LoginViolation(W, sock) == close_client(W, sock)

handle_login_line(W, sock, line) ==
    LET state == W.client_state[sock]
    IN IF state.login_stage = "await_user"
       THEN IF ~StartsWith(line, UserPrefix)
            THEN LoginViolation(W, sock)
            ELSE [W EXCEPT !.client_state[sock] =
                      [state EXCEPT !.pending_username = Some(From(line, Len(UserPrefix))),
                                    !.login_stage = "await_password"]]
       ELSE IF state.login_stage = "await_password"
       THEN IF ~StartsWith(line, PasswordPrefix)
            THEN LoginViolation(W, sock)
            ELSE LET password == From(line, Len(PasswordPrefix))
                     username == state.pending_username[1]
                 IN IF CredentialsOK(username, password)
                    THEN SendOrClose(
                             [W EXCEPT !.client_state[sock] = LoginState(state, username)],
                             sock, HiResp(username))
                    ELSE SendOrClose(
                             [W EXCEPT !.client_state[sock] = FailedLoginState(state)],
                             sock, FailedResp)
       ELSE W

\* a quit that says goodbye before it closes
HandleQuit_Bye(W, sock) ==
    close_client(SendOrClose(W, sock, Resp("bye\n", <<>>)), sock)

\* quit: close the connection, no response
HandleQuit(W, sock) == close_client(W, sock)

\* an unknown command answered with the error line, the connection kept
UnknownCommand_Reply(W, sock) == SendOrClose(W, sock, ErrorResp)

\* an unknown command that sends the connection back to the login
UnknownCommand_Relogin(W, sock) == [W EXCEPT !.client_state[sock] = NewState]

\* any other command: protocol error, close
UnknownCommand(W, sock) == close_client(W, sock)

handle_command_line(W, sock, line) ==
    IF Strip(line) = Quit THEN HandleQuit(W, sock)
    ELSE IF StartsWith(line, ParenPrefix)
    THEN LET parts == SplitFirst(line, SP)
         IN IF Len(parts) # 2 THEN close_client(W, sock)
            ELSE SendOrClose(W, sock, ParenResp(is_parentheses_balanced(parts[2])))
    ELSE IF StartsWith(line, LcmPrefix)
    THEN LET parts == SplitWS(line)
         IN IF Len(parts) # 3 THEN close_client(W, sock)
            ELSE LET x == ParseInt(parts[2])
                     y == ParseInt(parts[3])
                 IN IF x = None \/ y = None THEN close_client(W, sock)
                    ELSE SendOrClose(W, sock, LcmResp(lcm(x[1], y[1])))
    ELSE IF StartsWith(line, CaesarPrefix)
    THEN LET after_prefix == Strip(From(line, Len(CaesarPrefix)))
         IN IF ~Contains(after_prefix, SP) THEN close_client(W, sock)
            ELSE LET parts == RSplitLast(after_prefix, SP)
                     plaintext == parts[1]
                     shift == ParseInt(parts[2])
                 IN IF plaintext = <<>> THEN close_client(W, sock)
                    ELSE IF shift = None THEN close_client(W, sock)
                    ELSE LET ciphertext == caesar_cipher(plaintext, shift[1])
                         IN IF Raised(ciphertext) THEN [W EXCEPT !.crashed = TRUE]
                            ELSE SendOrClose(W, sock,
                                     IF ciphertext = None THEN ErrorResp
                                     ELSE CaesarResp(ciphertext[1]))
    ELSE UnknownCommand(W, sock)

\* What handling one line did, for the trace: the line, the session state
\* before and after (None once the connection is closed), what had been
\* written to the socket before, the responses written for the line, whether
\* a sendall raised, whether the connection is still monitored, and whether
\* the handler raised instead of returning.
LineRecord(sock, line, W0, W1) ==
    [sock |-> sock, line |-> line, before |-> W0.client_state[sock],
     after |-> IF sock \in DOMAIN W1.client_state
               THEN Some(W1.client_state[sock]) ELSE None,
     sentBefore |-> W0.sent[sock],
     resp |-> SubSeq(W1.sent[sock], Len(W0.sent[sock]) + 1, Len(W1.sent[sock])),
     sendFailed |-> W1.nsend > W0.nsend /\ W1.nsend = W1.failAt,
     open |-> sock \in W1.inputs,
     raised |-> W1.crashed]

\* a dispatch that looks at the line instead of logged_in
Dispatch_ByPrefix(W, s, line) ==
    IF StartsWith(line, UserPrefix) \/ StartsWith(line, PasswordPrefix)
    THEN handle_login_line(W, s, line)
    ELSE handle_command_line(W, s, line)

\* the dispatch on logged_in
Dispatch(W, s, line) ==
    IF ~W.client_state[s].logged_in
    THEN handle_login_line(W, s, line)
    ELSE handle_command_line(W, s, line)

RECURSIVE ProcessLines_LastFirst(_, _)
\* a loop that takes the newest complete line of the buffer first
ProcessLines_LastFirst(W, s) ==
    IF ~Contains(W.buffers[s], NL) THEN W
    ELSE LET b == W.buffers[s]
             i == LastIndex(b, NL)
             head == SubSeq(b, 1, i - 1)
             last == IF Contains(head, NL) THEN From(head, LastIndex(head, NL))
                     ELSE head
             W1 == [W EXCEPT !.buffers[s] =
                        SubSeq(head, 1, Len(head) - Len(last)) \o From(b, i)]
             line == RStripCR(last)
             W2 == Dispatch(W1, s, line)
             W3 == [W2 EXCEPT !.trace = Append(@, LineRecord(s, line, W1, W2))]
         IN IF s \notin W3.inputs \/ W3.crashed THEN W3
            ELSE ProcessLines_LastFirst(W3, s)

RECURSIVE ProcessLines_DeferClose(_, _)
\* a loop that handles every line of the read and closes afterwards
ProcessLines_DeferClose(W, s) ==
    IF ~Contains(W.buffers[s], NL) THEN W
    ELSE LET parts == SplitFirst(W.buffers[s], NL)
             W1 == [W EXCEPT !.buffers[s] = parts[2]]
             line == RStripCR(parts[1])
             W2 == Dispatch(W1, s, line)
             W3 == [W2 EXCEPT !.trace = Append(@, LineRecord(s, line, W1, W2))]
         IN IF W3.crashed THEN W3
            ELSE IF s \notin W3.inputs
            THEN close_client(
                     ProcessLines_DeferClose(
                         [W3 EXCEPT !.inputs = W1.inputs, !.buffers = W1.buffers,
                                    !.client_state = W1.client_state,
                                    !.closed = W1.closed], s), s)
            ELSE ProcessLines_DeferClose(W3, s)

RECURSIVE ProcessLines(_, _)
\* while "\n" in buffers[s]: ...
ProcessLines(W, s) ==
    IF ~Contains(W.buffers[s], NL) THEN W
    ELSE LET parts == SplitFirst(W.buffers[s], NL)
             W1 == [W EXCEPT !.buffers[s] = parts[2]]
             line == RStripCR(parts[1])
         IN IF s \notin DOMAIN W1.client_state THEN W1
            ELSE LET W2 == Dispatch(W1, s, line)
                     W3 == [W2 EXCEPT !.trace = Append(@,
                               LineRecord(s, line, W1, W2))]
                 IN IF s \notin W3.inputs \/ W3.crashed THEN W3
                    ELSE ProcessLines(W3, s)

Tables(failAt) ==
    [inputs |-> inputs, buffers |-> buffers, client_state |-> client_state,
     sent |-> sent, closed |-> closed, crashed |-> crashed, nsend |-> 0,
     failAt |-> failAt, trace |-> <<>>]

\* the tables of a server before its first accept
EmptyTables ==
    [inputs |-> {}, buffers |-> <<>>, client_state |-> <<>>,
     sent |-> [s \in Socks |-> <<>>], closed |-> {}, crashed |-> FALSE]

\* the tables kept in solo[s], ready for one event
SoloTables(s, failAt) ==
    [inputs |-> solo[s].inputs, buffers |-> solo[s].buffers,
     client_state |-> solo[s].client_state, sent |-> solo[s].sent,
     closed |-> solo[s].closed, crashed |-> solo[s].crashed, nsend |-> 0,
     failAt |-> failAt, trace |-> <<>>]

\* solo[s] after an event of socket s left its server's tables as W
InstallSolo(s, W) ==
    solo' = [solo EXCEPT ![s] =
                [inputs |-> W.inputs, buffers |-> W.buffers,
                 client_state |-> W.client_state, sent |-> W.sent,
                 closed |-> W.closed, crashed |-> W.crashed]]

Install(W) ==
    /\ inputs' = W.inputs
    /\ buffers' = W.buffers
    /\ client_state' = W.client_state
    /\ sent' = W.sent
    /\ closed' = W.closed
    /\ crashed' = W.crashed
    /\ trace' = W.trace

(***************************************************************************)
(* Inputs: the lines clients send and the ways they arrive in one recv().  *)
(***************************************************************************)
LoginLines ==
    { UserPrefix \o <<"a">>, UserPrefix \o <<"b">>, UserPrefix \o <<"c">>,
      PasswordPrefix \o <<"x">>, PasswordPrefix \o <<"y">> }

CommandLines ==
    { Quit,
      <<SP>> \o Quit \o <<TAB>>,
      ParenPrefix \o <<SP, "(", "a", ")">>,
      ParenPrefix \o <<SP, ")", "(">>,
      ParenPrefix \o <<SP>>,
      ParenPrefix \o <<"(", ")">>,
      ParenPrefix \o <<"x", SP, "(">>,
      LcmPrefix \o <<SP, "4", SP, "6">>,
      LcmPrefix \o <<SP, "0", SP, "5">>,
      LcmPrefix \o <<TAB, "-", "4", SP, SP, "1", "0">>,
      LcmPrefix \o <<SP, "4">>,
      LcmPrefix \o <<SP, "4", SP, "x">>,
      LcmPrefix \o <<"4", SP, "6">>,
      LcmPrefix \o <<"4", SP, "6", SP, "8">>,
      <<SP>> \o LcmPrefix \o <<SP, "4", SP, "6">>,
      CaesarPrefix \o <<SP, "a", "Z", SP, "y", SP, "3">>,
      CaesarPrefix \o <<SP, "a", "b", SP, "-", "1">>,
      CaesarPrefix \o <<SP, "H", "i", "!", SP, "3">>,
      CaesarPrefix \o <<SP, "a", "b">>,
      CaesarPrefix \o <<SP, "a", "b", SP, "z">>,
      CaesarPrefix \o <<SP, SP, "3">>,
      CaesarPrefix \o <<SP, IDot, SP, "1">>,
      <<"h", "i">>,
      <<>> }

Lines == LoginLines \cup CommandLines

\* two lines that arrive in one recv()
LinePairs ==
    { <<UserPrefix \o <<"a">>, PasswordPrefix \o <<"x">>>>,
      <<UserPrefix \o <<"a">>, PasswordPrefix \o <<"y">>>>,
      <<UserPrefix \o <<"b">>, PasswordPrefix \o <<"y">>>>,
      <<UserPrefix \o <<"c">>, PasswordPrefix \o <<"x">>>>,
      <<CaesarPrefix \o <<SP, "H", "i", "!", SP, "3">>, LcmPrefix \o <<SP, "4", SP, "6">>>>,
      <<Quit, LcmPrefix \o <<SP, "4", SP, "6">>>>,
      <<<<"h", "i">>, UserPrefix \o <<"a">>>> }

\* a client that does not wait for the answers: three lines in one recv()
LineTriples ==
    { <<UserPrefix \o <<"a">>, PasswordPrefix \o <<"x">>, LcmPrefix \o <<SP, "4", SP, "6">>>> }

\* a recv() that ends inside a line, and recv()s that begin inside one
Fragments ==
    { UserPrefix, LcmPrefix \o <<SP, "4">>,
      <<SP, "6", NL>>, <<"a", NL>> \o PasswordPrefix \o <<"x", NL>>,
      Quit \o <<CR, NL>> }

Reads ==
    { l \o <<NL>> : l \in Lines }
    \cup { pr[1] \o <<NL>> \o pr[2] \o <<NL>> : pr \in LinePairs }
    \cup { tr[1] \o <<NL>> \o tr[2] \o <<NL>> \o tr[3] \o <<NL>> : tr \in LineTriples }
    \cup Fragments

(***************************************************************************)
(* The event loop: one action for each thing one pass of the for loop does *)
(* with a readable socket.                                                 *)
(***************************************************************************)
\* no byte stream is followed
NoWire == [rest |-> <<>>, hist |-> <<>>, handed |-> <<>>, failed |-> 0]

\* the tables when the event loop is entered
InitTables ==
    /\ inputs = {}
    /\ buffers = <<>>
    /\ client_state = <<>>
    /\ sent = [s \in Socks |-> <<>>]
    /\ closed = {}
    /\ crashed = FALSE
    /\ nconn = 0
    /\ reads = 0
    /\ trace = <<>>
    /\ solo = [s \in Socks |-> EmptyTables]

\* caesar_cipher is not being called on its own
NoCalc == [phase |-> "none", s |-> <<>>, shift |-> 0, enc |-> None, dec |-> None]

Init == InitTables /\ wire = NoWire /\ calc = NoCalc

\* an accept that keeps the connection when the welcome line cannot be sent
AcceptOn_KeepOnFailure(W, client_sock) ==
    LET W1 == [W EXCEPT !.inputs = @ \cup {client_sock},
                        !.buffers = Put(@, client_sock, <<>>),
                        !.client_state = Put(@, client_sock, NewState)]
    IN IF W.failAt = 1 THEN [W1 EXCEPT !.nsend = 1]
       ELSE SendOrClose(W1, client_sock, Welcome)

\* accept, register, send the welcome line, on the tables W
AcceptOn(W, client_sock) ==
    SendOrClose([W EXCEPT !.inputs = @ \cup {client_sock},
                          !.buffers = Put(@, client_sock, <<>>),
                          !.client_state = Put(@, client_sock, NewState)],
                client_sock, Welcome)

\* append the received text to the buffer and handle its complete lines
RecvOn(W, s, data) == ProcessLines([W EXCEPT !.buffers[s] = @ \o data], s)

\* server_sock is readable: accept one connection
Accept(failAt) ==
    /\ ~crashed
    /\ nconn < MaxConns
    /\ LET client_sock == nconn + 1
       IN /\ Install(AcceptOn(Tables(failAt), client_sock))
          /\ InstallSolo(client_sock, AcceptOn(SoloTables(client_sock, failAt), client_sock))
    /\ nconn' = nconn + 1
    /\ UNCHANGED <<reads, wire, calc>>

\* a client socket is readable and recv() returns data; every sendall of the
\* event succeeds (failAt = 0) or the failAt-th of them raises
Recv(s, data) ==
    /\ ~crashed
    /\ s \in inputs
    /\ reads < MaxReads
    /\ Len(data) <= RECV_BUF_SIZE
    /\ LET W0 == RecvOn(Tables(0), s, data)
           S0 == RecvOn(SoloTables(s, 0), s, data)
       IN \E failAt \in 0..W0.nsend :
              /\ Install(IF failAt = 0 THEN W0 ELSE RecvOn(Tables(failAt), s, data))
              /\ InstallSolo(s, IF failAt = 0 THEN S0
                                ELSE RecvOn(SoloTables(s, failAt), s, data))
    /\ reads' = reads + 1
    /\ UNCHANGED <<nconn, wire, calc>>

\* recv() returns b"": the client closed the connection
RecvEOF(s) ==
    /\ ~crashed
    /\ s \in inputs
    /\ reads < MaxReads
    /\ Install(close_client(Tables(0), s))
    /\ InstallSolo(s, close_client(SoloTables(s, 0), s))
    /\ reads' = reads + 1
    /\ UNCHANGED <<nconn, wire, calc>>

\* recv() raises
RecvError(s) ==
    /\ ~crashed
    /\ s \in inputs
    /\ reads < MaxReads
    /\ Install(close_client(Tables(0), s))
    /\ InstallSolo(s, close_client(SoloTables(s, 0), s))
    /\ reads' = reads + 1
    /\ UNCHANGED <<nconn, wire, calc>>

\* recv() returns bytes that data.decode() rejects: the buffer is not changed
DecodeError(s) ==
    /\ ~crashed
    /\ s \in inputs
    /\ reads < MaxReads
    /\ Install(close_client(Tables(0), s))
    /\ InstallSolo(s, close_client(SoloTables(s, 0), s))
    /\ reads' = reads + 1
    /\ UNCHANGED <<nconn, wire, calc>>

Next ==
    \/ \E failAt \in 0..1 : Accept(failAt)
    \/ \E s \in Socks, data \in Reads : Recv(s, data)
    \/ \E s \in Socks : RecvEOF(s)
    \/ \E s \in Socks : RecvError(s)
    \/ \E s \in Socks : DecodeError(s)

Spec == Init /\ [][Next]_vars

(***************************************************************************)
(* One client's byte stream, delivered by recv() in pieces of any size.    *)
(* wire.rest is what the client has written and recv() has not returned    *)
(* yet, wire.hist what recv() has returned, wire.handed the records of the *)
(* lines handled so far, wire.failed which sendall of the connection's     *)
(* responses raised (0: none).                                             *)
(***************************************************************************)
\* str.encode() of one character: UTF-8, bytes written as tokens
Utf8(ch) ==
    IF ch = EAcute THEN <<"0xC3", "0xA9">>
    ELSE IF ch = IDot THEN <<"0xC4", "0xB0">>
    ELSE <<ch>>

RECURSIVE Encode(_)
\* str.encode()
Encode(text) == IF text = <<>> THEN <<>> ELSE Utf8(Head(text)) \o Encode(Tail(text))

RECURSIVE DecodeScan(_, _)
\* bytes.decode(): None when the bytes are not UTF-8, as when they end inside
\* a character or begin inside one
DecodeScan(bytes, acc) ==
    IF bytes = <<>> THEN Some(acc)
    ELSE IF Len(bytes) >= 2 /\ SubSeq(bytes, 1, 2) = Utf8(EAcute)
    THEN DecodeScan(From(bytes, 2), Append(acc, EAcute))
    ELSE IF Len(bytes) >= 2 /\ SubSeq(bytes, 1, 2) = Utf8(IDot)
    THEN DecodeScan(From(bytes, 2), Append(acc, IDot))
    ELSE IF Head(bytes) \in {"0xC3", "0xA9", "0xC4", "0xB0"} THEN None
    ELSE DecodeScan(Tail(bytes), Append(acc, Head(bytes)))

Decode(bytes) == DecodeScan(bytes, <<>>)

\* the client branch once recv() has returned data: decode, append, handle
RecvBytesOn(W, s, data) ==
    LET text == Decode(data)
    IN IF text = None THEN close_client(W, s) ELSE RecvOn(W, s, text[1])

Ln(line) == line \o <<NL>>

\* what one client writes over the life of its connection
Streams ==
    { Encode(Ln(UserPrefix \o <<"a">>) \o Ln(PasswordPrefix \o <<"x">>)
               \o Ln(LcmPrefix \o <<SP, "4", SP, "6">>) \o <<"q", "u">>),
      Encode(Ln(UserPrefix \o <<"a", CR>>) \o Ln(PasswordPrefix \o <<"x", CR>>)
               \o Ln(Quit) \o Ln(LcmPrefix \o <<SP, "4", SP, "6">>)),
      Encode(Ln(UserPrefix \o <<"c">>) \o Ln(PasswordPrefix \o <<"x">>)
               \o Ln(<<"h", "i">>) \o Ln(UserPrefix \o <<"a">>)),
      Encode(Ln(UserPrefix \o <<"a">>) \o Ln(PasswordPrefix \o <<"x">>)
               \o Ln(CaesarPrefix \o <<SP, EAcute, SP, "1">>)
               \o Ln(LcmPrefix \o <<SP, "4", SP, "6">>)) }

InitStream ==
    /\ InitTables
    /\ \E stream \in Streams :
          wire = [rest |-> stream, hist |-> <<>>, handed |-> <<>>, failed |-> 0]
    /\ calc = NoCalc

\* the client of the stream connects
AcceptStream(failAt) ==
    /\ nconn = 0
    /\ Accept(failAt)

\* recv() returns the next k bytes of the stream
RecvChunk(k) ==
    /\ ~crashed
    /\ 1 \in inputs
    /\ k <= RECV_BUF_SIZE
    /\ LET data == SubSeq(wire.rest, 1, k)
           W0 == RecvBytesOn(Tables(0), 1, data)
       IN \E failAt \in 0..W0.nsend :
              LET W == IF failAt = 0 THEN W0 ELSE RecvBytesOn(Tables(failAt), 1, data)
              IN /\ Install(W)
                 /\ InstallSolo(1, RecvBytesOn(SoloTables(1, failAt), 1, data))
                 /\ wire' = [rest |-> From(wire.rest, k),
                             hist |-> wire.hist \o data,
                             handed |-> wire.handed \o W.trace,
                             failed |-> IF failAt = 0 THEN wire.failed
                                        ELSE Len(sent[1]) - 1 + failAt]
    /\ reads' = reads + 1
    /\ UNCHANGED <<nconn, calc>>

NextStream ==
    \/ \E failAt \in 0..1 : AcceptStream(failAt)
    \/ \E k \in 1..Len(wire.rest) : RecvChunk(k)

SpecStream == InitStream /\ [][NextStream]_vars

(***************************************************************************)
(* caesar_cipher on its own: a call on a text of letters and spaces, then  *)
(* a call on its result with the opposite shift.                           *)
(***************************************************************************)
\* the characters of the texts: ASCII letters of both cases, a space, and
\* two letters outside ASCII
CaesarChars == {"a", "z", "M", SP, EAcute, IDot}

RECURSIVE TextsOfLen(_)
TextsOfLen(n) ==
    IF n = 0 THEN {<<>>}
    ELSE {Append(text, ch) : text \in TextsOfLen(n - 1), ch \in CaesarChars}

CaesarTexts == UNION {TextsOfLen(n) : n \in 0..MaxTextLen}

\* shifts below zero, inside 0..25, and of 26 and more
CaesarShifts == {-27, -1, 0, 3, 25, 26, 29}

InitCaesar ==
    /\ InitTables
    /\ wire = NoWire
    /\ \E s \in CaesarTexts, shift \in CaesarShifts :
          calc = [phase |-> "input", s |-> s, shift |-> shift,
                  enc |-> None, dec |-> None]

\* caesar_cipher(s, shift)
Encrypt ==
    /\ calc.phase = "input"
    /\ calc' = [calc EXCEPT !.phase = "encrypted",
                            !.enc = caesar_cipher(calc.s, calc.shift)]
    /\ UNCHANGED <<inputs, buffers, client_state, sent, closed, crashed, nconn,
                   reads, trace, solo, wire>>

\* caesar_cipher(the ciphertext, -shift mod 26)
Decrypt ==
    /\ calc.phase = "encrypted"
    /\ ~Raised(calc.enc)
    /\ calc.enc # None
    /\ calc' = [calc EXCEPT !.phase = "decrypted",
                            !.dec = caesar_cipher(calc.enc[1], (0 - calc.shift) % 26)]
    /\ UNCHANGED <<inputs, buffers, client_state, sent, closed, crashed, nconn,
                   reads, trace, solo, wire>>

NextCaesar == Encrypt \/ Decrypt

SpecCaesar == InitCaesar /\ [][NextCaesar]_vars

(***************************************************************************)
(* Properties.                                                             *)
(***************************************************************************)
Records == {trace[i] : i \in 1..Len(trace)}

LoggedInAs(u) == [logged_in |-> TRUE, login_stage |-> "None",
                  username |-> Some(u), pending_username |-> None]

IsCommandResult(resp) ==
    resp.text \in {ParenResp(TRUE).text, LcmResp(0).text,
                   CaesarResp(<<>>).text, ErrorResp.text}

\* the tables as far as socket s is concerned
Project(s) ==
    [inputs |-> inputs \cap {s},
     buffers |-> [k \in DOMAIN buffers \cap {s} |-> buffers[k]],
     client_state |-> [k \in DOMAIN client_state \cap {s} |-> client_state[k]],
     sent |-> [k \in Socks |-> IF k = s THEN sent[k] ELSE <<>>],
     closed |-> closed \cap {s},
     crashed |-> crashed]

\* C1: under every interleaving of the events of the connections, each
\* connection's buffer, session state, responses and close, and whether the
\* server is still there for it, are those of a server that serves this
\* connection alone and is given the same events.
C1_Isolation == \A s \in Socks : Project(s) = solo[s]

\* C2: a Password line in the password stage logs the connection in, with
\* the pending username as identity and the Hi line written, exactly when the
\* pending username is in the credential map with that password; otherwise
\* Failed to login. is written and the connection stays open at the username
\* stage.  A sendall that raises closes the connection instead.  No other
\* line logs a connection in.
C2_Login ==
    /\ \A r \in Records :
          (r.before.login_stage = "await_password"
             /\ StartsWith(r.line, PasswordPrefix)) =>
          LET u == r.before.pending_username[1]
              pw == From(r.line, Len(PasswordPrefix))
          IN IF r.sendFailed THEN ~r.open /\ r.resp = <<>>
             ELSE IF u \in DOMAIN users /\ users[u] = pw
             THEN r.resp = <<HiResp(u)>> /\ r.open /\ r.after = Some(LoggedInAs(u))
             ELSE r.resp = <<FailedResp>> /\ r.open /\ r.after = Some(NewState)
    /\ \A r \in Records :
          (~r.before.logged_in /\ r.after # None /\ r.after[1].logged_in) =>
          /\ r.before.login_stage = "await_password"
          /\ StartsWith(r.line, PasswordPrefix)
          /\ r.before.pending_username[1] \in DOMAIN users
          /\ users[r.before.pending_username[1]] = From(r.line, Len(PasswordPrefix))
    /\ \A s \in DOMAIN client_state :
          client_state[s].logged_in =>
          \E u \in DOMAIN users :
              /\ client_state[s] = LoggedInAs(u)
              /\ \E i \in 1..Len(sent[s]) : sent[s][i] = HiResp(u)

\* a wrong password for a known user was answered with Failed to login.
C2_Witness ==
    \E r \in Records :
        /\ r.before.login_stage = "await_password"
        /\ r.before.pending_username = Some(<<"a">>)
        /\ r.line = PasswordPrefix \o <<"y">>
        /\ r.resp = <<FailedResp>>
        /\ r.open

\* C3: a command result is written only to a connection that is logged in
\* and has been sent the Hi line of a user of the credential map before.
C3_ResultsOnlyAfterLogin ==
    /\ \A s \in Socks : \A i \in 1..Len(sent[s]) :
          IsCommandResult(sent[s][i]) =>
          \E j \in 1..(i - 1) : \E u \in DOMAIN users : sent[s][j] = HiResp(u)
    /\ \A r \in Records :
          (\E i \in 1..Len(r.resp) : IsCommandResult(r.resp[i])) =>
          /\ r.before.logged_in
          /\ \E u \in DOMAIN users :
                /\ r.before.username = Some(u)
                /\ \E j \in 1..Len(r.sentBefore) : r.sentBefore[j] = HiResp(u)

\* a command result has been written to a connection
C3_Witness ==
    \E s \in Socks :
        /\ Len(sent[s]) = 3
        /\ sent[s][2] = HiResp(<<"b">>)
        /\ sent[s][3] = LcmResp(12)

\* the commands of the protocol among Lines, each in its documented form
ValidCommandLines ==
    { ParenPrefix \o <<SP, "(", "a", ")">>,
      ParenPrefix \o <<SP, ")", "(">>,
      LcmPrefix \o <<SP, "4", SP, "6">>,
      LcmPrefix \o <<SP, "0", SP, "5">>,
      CaesarPrefix \o <<SP, "a", "Z", SP, "y", SP, "3">>,
      CaesarPrefix \o <<SP, "a", "b", SP, "-", "1">> }

\* Welcome followed by one or more Failed to login.
WelcomeThenFailed(seq) ==
    /\ Len(seq) >= 2
    /\ seq[1] = Welcome
    /\ \A i \in 2..Len(seq) : seq[i] = FailedResp

PasswordMatches(r) ==
    /\ r.before.pending_username[1] \in DOMAIN users
    /\ users[r.before.pending_username[1]] = From(r.line, Len(PasswordPrefix))

\* C4: every failed attempt is answered with exactly one Failed to login. and
\* leaves the connection open at the username stage; after any number of
\* failed attempts a User line is accepted, a Password line with the right
\* password gets exactly one Hi line after the Failed lines and logs the
\* connection in, and the valid commands that follow are answered (unless a
\* sendall raises).
C4_LoginRetry ==
    /\ \A r \in Records :
          (r.before.login_stage = "await_password"
             /\ StartsWith(r.line, PasswordPrefix)
             /\ ~PasswordMatches(r) /\ ~r.sendFailed) =>
          /\ r.resp = <<FailedResp>>
          /\ r.open
          /\ r.after = Some(NewState)
    /\ \A r \in Records :
          (WelcomeThenFailed(r.sentBefore) /\ ~r.sendFailed) =>
          /\ r.before = NewState \/ r.before.login_stage = "await_password"
          /\ (r.before = NewState /\ StartsWith(r.line, UserPrefix)) =>
                /\ r.open /\ r.resp = <<>>
                /\ r.after = Some([NewState EXCEPT
                                     !.login_stage = "await_password",
                                     !.pending_username = Some(From(r.line, Len(UserPrefix)))])
          /\ (r.before.login_stage = "await_password"
                /\ StartsWith(r.line, PasswordPrefix) /\ PasswordMatches(r)) =>
                /\ r.open
                /\ r.resp = <<HiResp(r.before.pending_username[1])>>
                /\ r.after = Some(LoggedInAs(r.before.pending_username[1]))
                /\ sent[r.sock] = r.sentBefore \o <<HiResp(r.before.pending_username[1])>>
                   \/ r # trace[Len(trace)]
    /\ \A r \in Records :
          (r.before.logged_in /\ r.line \in ValidCommandLines /\ ~r.sendFailed
             /\ \E i \in 1..Len(r.sentBefore) : r.sentBefore[i] = FailedResp) =>
          /\ r.open
          /\ Len(r.resp) = 1
          /\ IsCommandResult(r.resp[1])
          /\ r.after = Some(r.before)
    /\ \A s \in Socks : \A i \in 1..Len(sent[s]) :
          /\ sent[s][i] = FailedResp =>
                \A j \in 1..(i - 1) : sent[s][j] \in {Welcome, FailedResp}
          /\ sent[s][i].text = HiResp(<<>>).text =>
                \A j \in 1..(i - 1) : sent[s][j].text # HiResp(<<>>).text

\* one failed attempt, then a successful login, then an answered command
C4_Witness ==
    \E s \in inputs :
        /\ sent[s] = <<Welcome, FailedResp, HiResp(<<"a">>), LcmResp(12)>>
        /\ client_state[s] = LoggedInAs(<<"a">>)

\* C5: in the login phase a line without the prefix its stage expects (not
\* User:  at the username stage, not Password:  at the password stage)
\* closes the connection, and nothing is written for it.
C5_LoginViolationCloses ==
    \A r \in Records :
        (~r.before.logged_in
           /\ \/ r.before.login_stage = "await_user" /\ ~StartsWith(r.line, UserPrefix)
              \/ r.before.login_stage = "await_password"
                   /\ ~StartsWith(r.line, PasswordPrefix)) =>
        /\ ~r.open
        /\ r.resp = <<>>
        /\ r.after = None
        /\ r.sock \in closed /\ r.sock \notin inputs
        /\ sent[r.sock] = r.sentBefore

\* quit at the password stage closed the connection
C5_Witness ==
    \E r \in Records :
        /\ r.before.login_stage = "await_password"
        /\ r.line = Quit
        /\ r.sock \in closed
        /\ sent[r.sock] = <<Welcome>>

\* caesar: <plaintext> <shift> as the protocol words it: after the prefix and
\* surrounding whitespace, a non-empty plaintext, a space, an integer
CaesarArgs(line) == Strip(From(line, Len(CaesarPrefix)))
WellFormedCaesar(line) ==
    /\ StartsWith(line, CaesarPrefix)
    /\ Contains(CaesarArgs(line), SP)
    /\ LET i == LastIndex(CaesarArgs(line), SP)
       IN /\ i > 1
          /\ ParseInt(SubSeq(CaesarArgs(line), i + 1, Len(CaesarArgs(line)))) # None
CaesarPlaintext(line) ==
    SubSeq(CaesarArgs(line), 1, LastIndex(CaesarArgs(line), SP) - 1)
HasInvalidChar(text) ==
    \E i \in 1..Len(text) : text[i] # SP /\ ~IsAlpha(text[i])

C7_UnknownCommandCloses ==
    /\ \A r \in Records :
          (r.before.logged_in
             /\ Strip(r.line) # Quit
             /\ ~StartsWith(r.line, ParenPrefix)
             /\ ~StartsWith(r.line, LcmPrefix)
             /\ ~StartsWith(r.line, CaesarPrefix)) =>
          /\ ~r.open
          /\ r.resp = <<>>
          /\ r.after = None
          /\ r.sock \in closed /\ r.sock \notin inputs
          /\ sent[r.sock] = r.sentBefore
    /\ \A r \in Records :
          (\E i \in 1..Len(r.resp) : r.resp[i] = ErrorResp) =>
          /\ r.before.logged_in
          /\ WellFormedCaesar(r.line)
          /\ HasInvalidChar(CaesarPlaintext(r.line))
          /\ r.open
    /\ \A s \in Socks : \A i \in 1..Len(sent[s]) :
          sent[s][i].text \in {Welcome.text, HiResp(<<>>).text, FailedResp.text}
          \/ IsCommandResult(sent[s][i])

\* a User:  line on a logged-in connection closed it
C7_Witness ==
    \E r \in Records :
        /\ r.before = LoggedInAs(<<"a">>)
        /\ r.line = UserPrefix \o <<"a">>
        /\ r.sock \in closed
        /\ sent[r.sock] = <<Welcome, HiResp(<<"a">>)>>

\* C8: a parentheses: line is answered when the prefix is followed by one
\* space and a non-empty remainder, with the balance of the remainder, and
\* every other parentheses: line closes the connection with no reply.
C8_ParenthesesGrammar ==
    \A r \in Records :
        (r.before.logged_in /\ StartsWith(r.line, ParenPrefix) /\ ~r.sendFailed) =>
        LET rest == From(r.line, Len(ParenPrefix))
        IN IF Len(rest) >= 2 /\ rest[1] = SP
           THEN r.resp = <<ParenResp(is_parentheses_balanced(Tail(rest)))>> /\ r.open
           ELSE r.resp = <<>> /\ ~r.open

\* C9: an lcm: line is answered when exactly two whitespace-separated tokens
\* follow the prefix and both are integers, with the lcm of the two, and
\* every other lcm: line closes the connection with no reply.
C9_LcmGrammar ==
    \A r \in Records :
        (r.before.logged_in /\ StartsWith(r.line, LcmPrefix) /\ ~r.sendFailed) =>
        LET toks == SplitWS(From(r.line, Len(LcmPrefix)))
        IN IF Len(toks) = 2 /\ ParseInt(toks[1]) # None /\ ParseInt(toks[2]) # None
           THEN /\ r.resp = <<LcmResp(lcm(ParseInt(toks[1])[1], ParseInt(toks[2])[1]))>>
                /\ r.open
           ELSE r.resp = <<>> /\ ~r.open

\* C10: on a logged-in connection a line that is quit once surrounding
\* whitespace is trimmed closes the connection, and nothing is written for it.
C10_QuitCloses ==
    \A r \in Records :
        (r.before.logged_in /\ Strip(r.line) = Quit) =>
        /\ ~r.open
        /\ r.resp = <<>>
        /\ r.after = None
        /\ r.sock \in closed /\ r.sock \notin inputs
        /\ sent[r.sock] = r.sentBefore

\* quit with whitespace around it closed a logged-in connection
C10_Witness ==
    \E r \in Records :
        /\ r.before.logged_in
        /\ r.line = <<SP>> \o Quit \o <<TAB>>
        /\ r.sock \in closed
        /\ Len(sent[r.sock]) = 2

\* C11: the first thing written to an accepted connection is the welcome
\* line, and it is written once; a connection whose welcome line could not be
\* sent has been closed with nothing written to it and none of its lines is
\* ever handled; every line handled comes from a connection that had been
\* sent the welcome line first.
C11_WelcomeFirstOnce ==
    /\ \A s \in Socks :
          IF s > nconn THEN sent[s] = <<>> /\ s \notin inputs
          ELSE IF sent[s] = <<>>
          THEN /\ s \in closed /\ s \notin inputs
               /\ s \notin DOMAIN buffers /\ s \notin DOMAIN client_state
               /\ \A r \in Records : r.sock # s
          ELSE /\ sent[s][1] = Welcome
               /\ \A i \in 2..Len(sent[s]) : sent[s][i] # Welcome
    /\ \A r \in Records :
          /\ r.sentBefore # <<>>
          /\ r.sentBefore[1] = Welcome
          /\ \A i \in 1..Len(r.resp) : r.resp[i] # Welcome

\* one connection was closed because its welcome line could not be sent, and
\* another has been welcomed and then answered
C11_Witness ==
    \E s, u \in Socks :
        /\ s <= nconn /\ sent[s] = <<>> /\ s \in closed
        /\ u \in inputs /\ Len(sent[u]) >= 2 /\ sent[u][1] = Welcome

\* what the server holds for socket s
Slice(s) ==
    [monitored |-> s \in inputs,
     buffer |-> IF s \in DOMAIN buffers THEN Some(buffers[s]) ELSE None,
     state |-> IF s \in DOMAIN client_state THEN Some(client_state[s]) ELSE None,
     written |-> sent[s],
     closed |-> s \in closed]

\* C13: whatever an event of one connection is (data, end of stream, a
\* failing recv or sendall, undecodable bytes, a protocol violation) and
\* whatever it does to that connection, no other connection's monitored
\* status, buffer, session state or responses change in that step, and the
\* event loop is still running after it.
C13_ErrorLocality ==
    [][ /\ ~crashed'
        /\ \A s, u \in Socks :
              (s # u /\ Slice(s)' # Slice(s)) => Slice(u)' = Slice(u) ]_vars

\* ex1_client.py, is_valid_command: the check command_loop makes on the
\* user's input before it sends the input, unchanged, and a newline
is_valid_command(cmd) ==
    LET line == Strip(cmd)
    IN IF line = Quit THEN TRUE
       ELSE IF StartsWith(line, ParenPrefix)
       THEN LET parts == SplitFirst(line, SP)
            IN Len(parts) = 2 /\ parts[2] # <<>>
       ELSE IF StartsWith(line, LcmPrefix)
       THEN LET parts == SplitWS(line)
            IN /\ Len(parts) = 3
               /\ ParseInt(parts[2]) # None
               /\ ParseInt(parts[3]) # None
       ELSE IF StartsWith(line, CaesarPrefix)
       THEN LET after_prefix == Strip(From(line, Len(CaesarPrefix)))
            IN /\ Contains(after_prefix, SP)
               /\ LET parts == RSplitLast(after_prefix, SP)
                  IN parts[1] # <<>> /\ ParseInt(parts[2]) # None
       ELSE FALSE

\* C19: on a logged-in connection every line that the client's
\* is_valid_command accepts and that is not quit is answered with one
\* response line, the connection staying open (unless the sendall raises).
C19_ClientServerGrammar ==
    \A r \in Records :
        (r.before.logged_in /\ is_valid_command(r.line)
           /\ Strip(r.line) # Quit /\ ~r.sendFailed) =>
        /\ ~r.raised
        /\ r.open
        /\ Len(r.resp) = 1
        /\ IsCommandResult(r.resp[1])

\* the shape of a session state: the pending username is there only at the
\* password stage and the identity only once logged in
SessionStateOK(state) ==
    /\ state.login_stage \in {"await_user", "await_password", "None"}
    /\ state.logged_in = (state.login_stage = "None")
    /\ state.pending_username # None => state.login_stage = "await_password"
    /\ state.username # None => state.logged_in
    /\ state.login_stage = "await_user" =>
          state.pending_username = None /\ state.username = None
    /\ state.login_stage = "await_password" =>
          state.pending_username # None /\ state.username = None
    /\ state.logged_in =>
          state.pending_username = None /\ state.username # None

\* C17: the session state of every open connection, and the state every
\* handled line found and left, has a pending username only at the password
\* stage and an identity only when logged in: at the username stage neither
\* is set, at the password stage only the pending username, and once logged
\* in only the identity.
C17_SessionStateInvariant ==
    /\ \A s \in DOMAIN client_state : SessionStateOK(client_state[s])
    /\ \A r \in Records :
          /\ SessionStateOK(r.before)
          /\ r.after # None => SessionStateOK(r.after[1])

\* one connection is at the password stage and the other is logged in
C17_Witness ==
    \E s, u \in inputs :
        /\ client_state[s].login_stage = "await_password"
        /\ client_state[s].pending_username = Some(<<"b">>)
        /\ client_state[u] = LoggedInAs(<<"a">>)

\* C18: a line handled on a logged-in connection leaves the session state as
\* it was or closes the connection, whatever the line is; a connection that
\* has been sent a Hi line and is still open is logged in under the name of
\* that line.
C18_AuthenticatedIsTerminal ==
    /\ \A r \in Records :
          r.before.logged_in =>
          /\ r.after = None \/ r.after = Some(r.before)
          /\ r.after = None => ~r.open
    /\ \A s \in inputs : \A i \in 1..Len(sent[s]) :
          sent[s][i].text = HiResp(<<>>).text =>
          client_state[s] = LoggedInAs(sent[s][i].arg)

\* a logged-in connection was sent a Password line: it was closed with no
\* response, never moved back to the login
C18_Witness ==
    \E r \in Records :
        /\ r.before = LoggedInAs(<<"a">>)
        /\ r.line = PasswordPrefix \o <<"y">>
        /\ r.after = None
        /\ sent[r.sock] = <<Welcome, HiResp(<<"a">>)>>

\* the three tables hold the same sockets, none of them closed
RegistryConsistent ==
    /\ DOMAIN buffers = inputs
    /\ DOMAIN client_state = inputs
    /\ inputs \cap closed = {}
    /\ inputs \cup closed \subseteq 1..nconn

\* C20: before and after every event the monitored sockets, the keys of
\* buffers and the keys of client_state are the same set and hold no closed
\* socket; a closed socket stays closed, is in none of the tables, and no
\* line of it is handled and nothing is written to it in any later event.
C20_RegistryConsistency ==
    [][ /\ RegistryConsistent
        /\ RegistryConsistent'
        /\ \A s \in closed :
              /\ s \in closed'
              /\ s \notin inputs'
              /\ sent'[s] = sent[s]
              /\ \A r \in Records' : r.sock # s ]_vars

\* after one connection was closed the other was served
C20_Witness ==
    /\ closed = {1}
    /\ inputs = {2}
    /\ DOMAIN buffers = {2}
    /\ DOMAIN client_state = {2}
    /\ \E r \in Records : r.sock = 2 /\ r.resp # <<>>

(***************************************************************************)
(* Properties of one connection's byte stream (SpecStream).                *)
(***************************************************************************)
IsPrefix(a, b) == Len(a) <= Len(b) /\ SubSeq(b, 1, Len(a)) = a

RECURSIVE SplitLines(_)
\* the complete lines of a text: what precedes each newline, without a
\* carriage return at the end
SplitLines(text) ==
    IF ~Contains(text, NL) THEN <<>>
    ELSE LET i == FirstIndex(text, NL)
         IN <<RStripCR(SubSeq(text, 1, i - 1))>> \o SplitLines(From(text, i))

\* the text the client writes over the life of the connection
StreamText == Decode(wire.hist \o wire.rest)[1]

NLCount(bytes) == Cardinality({i \in 1..Len(bytes) : bytes[i] = NL})

LinesOf(recs) == [i \in 1..Len(recs) |-> recs[i].line]

RECURSIVE Responses(_)
\* the responses written for a sequence of handled lines, in order
Responses(recs) ==
    IF recs = <<>> THEN <<>> ELSE Head(recs).resp \o Responses(Tail(recs))

\* C12: the lines of a connection are handled in the order of the stream,
\* across reads and within a read: the lines handled so far are the first
\* lines of the stream, every complete line received on an open connection
\* has been handled in the read that completed it, and what has been written
\* to the connection is the welcome line and then the responses of the
\* handled lines in the order of the lines, each written before the next line
\* is handled.
C12_ArrivalOrder ==
    /\ IsPrefix(LinesOf(wire.handed), SplitLines(StreamText))
    /\ Len(wire.handed) <= NLCount(wire.hist)
    /\ (1 \in inputs /\ ~crashed) => Len(wire.handed) = NLCount(wire.hist)
    /\ sent[1] # <<>> => sent[1] = <<Welcome>> \o Responses(wire.handed)
    /\ \A i \in 1..Len(wire.handed) :
          wire.handed[i].sentBefore =
              <<Welcome>> \o Responses(SubSeq(wire.handed, 1, i - 1))

\* the whole stream has arrived in three or more reads, its three lines were
\* handled and the two that have a response were answered in order
C12_Witness ==
    /\ wire.rest = <<"q", "u">> \/ wire.rest = <<>>
    /\ reads >= 3
    /\ 1 \in inputs
    /\ Len(wire.handed) = 3
    /\ sent[1] = <<Welcome, HiResp(<<"a">>), LcmResp(12)>>

\* the tables after the client connects and the whole stream arrives in one
\* recv(), the same sendall raising
OneRead(stream, failed) ==
    LET A == AcceptOn([inputs |-> {}, buffers |-> <<>>, client_state |-> <<>>,
                       sent |-> [s \in Socks |-> <<>>], closed |-> {},
                       crashed |-> FALSE, nsend |-> 0, failAt |-> 0,
                       trace |-> <<>>], 1)
    IN RecvBytesOn([A EXCEPT !.nsend = 0, !.failAt = failed], 1, stream)

\* C14: however the stream is split into reads, the lines handed to the
\* handlers are the first of those handed when the whole stream arrives in
\* one read, and all of them once the stream has arrived or the connection
\* is closed, with the same buffer left; a part without a newline stays in
\* the buffer.
C14_FramingIndependentOfReads ==
    sent[1] # <<>> =>
    LET whole == OneRead(wire.hist \o wire.rest, wire.failed)
    IN /\ IsPrefix(LinesOf(wire.handed), LinesOf(whole.trace))
       /\ (wire.rest = <<>> \/ 1 \notin inputs) =>
             /\ LinesOf(wire.handed) = LinesOf(whole.trace)
             /\ (1 \in inputs) = (1 \in whole.inputs)
             /\ 1 \in inputs => buffers[1] = whole.buffers[1]
       /\ 1 \in inputs =>
             /\ ~Contains(buffers[1], NL)
             /\ IF Contains(wire.hist, NL)
                THEN Encode(buffers[1]) = From(wire.hist, LastIndex(wire.hist, NL))
                ELSE Encode(buffers[1]) = wire.hist

\* C16: a line whose handling closes the connection is the last line of the
\* connection that is handled: the complete lines after it in the same read
\* get no record, the connection's buffer and session state are gone, and
\* nothing is written beyond the responses of the lines handled.
C16_StopAfterClose ==
    /\ \A i \in 1..Len(trace) : ~trace[i].open => i = Len(trace)
    /\ \A i \in 1..Len(wire.handed) :
          ~wire.handed[i].open =>
          /\ i = Len(wire.handed)
          /\ wire.handed[i].after = None
          /\ 1 \in closed
    /\ 1 \in closed =>
          /\ 1 \notin inputs
          /\ 1 \notin DOMAIN buffers
          /\ 1 \notin DOMAIN client_state
          /\ sent[1] # <<>> => sent[1] = <<Welcome>> \o Responses(wire.handed)

\* quit closed the connection in the read that also brought the lcm line
\* after it
C16_Witness ==
    /\ trace # <<>>
    /\ trace[Len(trace)].line = Quit
    /\ ~trace[Len(trace)].open
    /\ NLCount(wire.hist) > Len(wire.handed)
    /\ sent[1] = <<Welcome, HiResp(<<"a">>)>>

(***************************************************************************)
(* Properties of caesar_cipher on its own (SpecCaesar).                    *)
(***************************************************************************)
\* str.lower() of a text; the lower() of U+0130 is i and a combining dot
Lower(text) ==
    [i \in 1..Len(text) |->
        IF InSeq(text[i], UpperCase) THEN LowerCase[IndexIn(text[i], UpperCase)]
        ELSE IF text[i] = IDot THEN "i_dot"
        ELSE text[i]]

\* C15: for a text of letters and spaces and any shift, caesar_cipher
\* returns a text, with the spaces where they were; applying caesar_cipher
\* to it with -shift mod 26 returns the text in lower case; and the shift
\* counts modulo 26.
C15_CaesarRoundTrip ==
    /\ calc.phase \in {"encrypted", "decrypted"} =>
          /\ ~Raised(calc.enc)
          /\ calc.enc # None
          /\ Len(calc.enc[1]) = Len(calc.s)
          /\ \A i \in 1..Len(calc.s) : (calc.enc[1][i] = SP) = (calc.s[i] = SP)
          /\ calc.enc = caesar_cipher(calc.s, calc.shift % 26)
    /\ calc.phase = "decrypted" =>
          /\ ~Raised(calc.dec)
          /\ calc.dec = Some(Lower(calc.s))

====
